---- MODULE Spec2Model ----
(***************************************************************************)
(* Submission pipeline of the NBTech website backend: the contact form     *)
(* (/send-email) and the career form with a resume upload                  *)
(* (/send-career-email), in the two programs of the repository:            *)
(*   "server"  src/server.js            (multer.diskStorage, guarded       *)
(*                                       cleanup, multer-aware catch)      *)
(*   "part"    src/unnamed/part_000     (multer dest, plain catch)         *)
(* One behaviour runs one of the two programs (impl).  Node runs each      *)
(* synchronous stretch of a handler to completion, so a handler is two     *)
(* actions: up to the await of resend.emails.send, and from its            *)
(* resolution to the response.  The environment decides the provider's     *)
(* answer, the clock, Math.random, and may remove a file of uploads/       *)
(* behind the program's back.                                              *)
(***************************************************************************)
EXTENDS Integers, Sequences, FiniteSets, TLC

\* ---------------------------------------------------------------- bounds
NumRequests == 2
MaxClock == 2
MaxRand == 1

Requests == 1..NumRequests
Impls == {"server", "part"}

\* ------------------------------------------------------- program constants
allowedTypes ==
    {"application/pdf", "application/msword",
     "application/vnd.openxmlformats-officedocument.wordprocessingml.document"}

fileSize == 5 * 1024 * 1024

ContactRecipient == "contact@navabharathtechnologies.com"
HrRecipient == "hr@navabharathtechnologies.com"

\* Response messages, as sequences of words (a JS string is searched by
\* String.includes, which the model does word by word).
MsgContactRequired == [server |-> <<"All fields are required.">>,
                       part |-> <<"All fields are required">>]
MsgContactSent == [server |-> <<"Email sent successfully!">>,
                   part |-> <<"Email sent successfully">>]
MsgContactFailed == [server |-> <<"Failed to send email.">>,
                     part |-> <<"Failed to send email">>]
MsgCareerRequired == [server |-> <<"Name, email, phone, and job role are required.">>,
                      part |-> <<"All required fields must be filled">>]
MsgResumeRequired == <<"Resume file is required.">>
MsgCareerSent == [server |-> <<"Application submitted successfully!">>,
                  part |-> <<"Application submitted successfully">>]
MsgCareerFailed == [server |-> <<"Failed to submit application. Please try again.">>,
                    part |-> <<"Failed to submit application">>]
MsgFileTooLarge == <<"File size exceeds 5MB limit.">>
MsgInvalidType == [server |-> <<"Invalid file type", ". Only PDF, DOC, and DOCX files are allowed.">>,
                   part |-> <<"Only PDF, DOC, DOCX allowed">>]
MsgNotAFunction == <<"Cannot read properties of undefined (reading 'includes')">>
MsgInternal == <<"Internal Server Error">>

\* ------------------------------------------------------------ request data
ContactFields == {"name", "email", "message"}
CareerRequired == {"name", "email", "phone", "jobRole"}
CareerFields == CareerRequired \cup {"experience", "message"}

\* The bodies a client sends, as the set of fields that are present and
\* non-empty: complete, one required field missing, the optional ones missing.
ContactBodies == {ContactFields} \cup {ContactFields \ {f} : f \in ContactFields}

CareerBodies ==
    {CareerFields, CareerRequired} \cup {CareerFields \ {f} : f \in CareerRequired}

\* The file parts a client sends: none, well-formed ones of each allowed
\* type (one of them exactly at the size limit, one under a name of the
\* client's choosing), one of a refused type, and two beyond the limit.
Upload(originalname, mimetype, size) ==
    [has |-> TRUE, originalname |-> originalname, mimetype |-> mimetype, size |-> size]

NoUpload == [has |-> FALSE, originalname |-> "", mimetype |-> "", size |-> 0]

Uploads ==
    {NoUpload,
     Upload("resume.pdf", "application/pdf", 1024 * 1024),
     Upload("Invalid file type.doc", "application/msword", 1024 * 1024),
     Upload("cv.docx",
            "application/vnd.openxmlformats-officedocument.wordprocessingml.document",
            fileSize),
     Upload("resume.pdf", "text/plain", 1024 * 1024),
     Upload("resume.pdf", "application/pdf", fileSize + 1),
     Upload("cv.docx", "application/pdf", 10 * 1024 * 1024)}

\* Errors a handler can catch.  message is a sequence of words; an error
\* value without a message property has hasMessage = FALSE.
\* multer is TRUE for an instance of multer.MulterError, whose code is set.
Err(multer, code, hasMessage, message) ==
    [multer |-> multer, code |-> code, hasMessage |-> hasMessage, message |-> message]

\* A string as the words String.includes is asked about.
words(str) ==
    IF str = "Invalid file type.doc" THEN <<"Invalid file type", ".doc">> ELSE <<str>>

\* The error of fs.readFileSync and fs.unlinkSync on an absent path p; its
\* message names the path, whose last part server.js takes from the upload.
ErrENOENT(p) ==
    Err(FALSE, "ENOENT", TRUE,
        <<"ENOENT: no such file or directory">>
        \o (IF p = <<>> THEN <<>> ELSE words(p[3])))

ErrLimitFileSize == Err(TRUE, "LIMIT_FILE_SIZE", TRUE, <<"File too large">>)

\* cb(new Error(...)) of fileFilter
ErrInvalidType(i) == Err(FALSE, "", TRUE, MsgInvalidType[i])

\* error.message.includes(...) on an error value without a message
ErrTypeError == Err(FALSE, "", TRUE, MsgNotAFunction)

\* What resend.emails.send can throw: a network error, an API error whose
\* text the provider chooses, a value that is no Error object.
ProviderErrors ==
    {Err(FALSE, "", TRUE, <<"ECONNRESET">>),
     Err(FALSE, "", TRUE, <<"Attachment rejected:", "Invalid file type">>),
     Err(FALSE, "", FALSE, <<>>)}

\* ------------------------------------------------------------------ state
VARIABLES
    impl,      \* which program runs
    now,       \* Date.now()
    files,     \* uploads/: path -> the request whose bytes the file holds
    pc,        \* per request: its position
    kind,      \* per request: "contact" or "career"
    body,      \* per request: req.body, the set of non-empty fields
    upload,    \* per request: the file part the client sent
    path,      \* per request: req.file.path (<<>> when no file was stored)
    resp,      \* per request: the response sent
    outbox,    \* calls of resend.emails.send, in order
    h          \* per request: what the run did (history)

vars == <<impl, now, files, pc, kind, body, upload, path, resp, outbox, h>>

NoPath == <<>>
NoResp == [status |-> 0, envelope |-> FALSE, success |-> FALSE, message |-> <<>>]
Json(status, success, message) ==
    [status |-> status, envelope |-> TRUE, success |-> success, message |-> message]

NoHist ==
    [stored |-> FALSE,        \* multer wrote the upload to disk
     unlinkCalls |-> 0,       \* calls of unlink on the request's path
     unlinkThrew |-> FALSE,   \* a call of fs.unlinkSync threw
     foundAbsent |-> FALSE,   \* a cleanup point found the path absent
     removedOther |-> FALSE,  \* an unlink removed bytes of another request
     sends |-> 0,             \* calls of resend.emails.send
     accepted |-> FALSE,      \* the provider accepted the message
     sendFailed |-> FALSE,    \* the provider's send threw
     sendError |-> <<>>,      \* the message of the provider's error
     rejected |-> FALSE,      \* the validation branch was taken
     responses |-> 0,         \* responses sent
     readFailed |-> FALSE,    \* fs.readFileSync threw
     trace |-> <<>>]          \* the stages passed, in order

\* ------------------------------------------------------------- filesystem
existsSync(fs, p) == p \in DOMAIN fs

unlinkSync(fs, p) == [q \in DOMAIN fs \ {p} |-> fs[q]]

readFileSync(fs, p) == fs[p]

writeFile(fs, p, r) == [q \in DOMAIN fs \cup {p} |-> IF q = p THEN r ELSE fs[q]]

\* ---------------------------------------------------------------- multer
\* server.js: Date.now() + '-' + Math.round(Math.random() * 1E9) + '-' + originalname
filename(t, rnd, originalname) == <<t, rnd, originalname>>

\* part_000: multer's default for dest, crypto.randomBytes(16) in hex, taken
\* as never repeating; r stands for the 128-bit token of the r-th upload.
defaultFilename(r) == <<0, r, "">>

fileFilter(file) == file.mimetype \in allowedTypes

withinLimit(file) == file.size <= fileSize

\* ------------------------------------------------------- handler building
\* A handler's synchronous stretch works on c = [fs, h, threw]: the
\* filesystem, the request's history, and whether the last call threw.
Ctx(fs, hr) == [fs |-> fs, h |-> hr, threw |-> FALSE]

\* The request passes stage s.
Stage(c, s) == [c EXCEPT !.h.trace = Append(@, s)]

\* fs.readFileSync threw.
ReadFailed(c) == [c EXCEPT !.h.readFailed = TRUE]

\* fs.unlinkSync(p) as the handler calls it: throws ENOENT when p is absent.
TryUnlink(c, r, p) ==
    IF existsSync(c.fs, p)
    THEN [fs |-> unlinkSync(c.fs, p),
          h |-> [c.h EXCEPT !.unlinkCalls = @ + 1,
                            !.removedOther = @ \/ c.fs[p] # r,
                            !.trace = Append(@, "CleanedUp")],
          threw |-> FALSE]
    ELSE [fs |-> c.fs,
          h |-> [c.h EXCEPT !.unlinkCalls = @ + 1,
                            !.unlinkThrew = TRUE,
                            !.foundAbsent = TRUE,
                            !.trace = Append(@, "CleanedUp")],
          threw |-> TRUE]

\* GuardedUnlink with the cleanup left out.
GuardedUnlink_skipped(c, r, p) == [c EXCEPT !.threw = FALSE]

\* GuardedUnlink without the fs.existsSync test.
GuardedUnlink_unguarded(c, r, p) ==
    IF p # NoPath THEN TryUnlink(c, r, p) ELSE [c EXCEPT !.threw = FALSE]

\* if (p && fs.existsSync(p)) { fs.unlinkSync(p); }
GuardedUnlink(c, r, p) ==
    IF p # NoPath /\ existsSync(c.fs, p)
    THEN TryUnlink(c, r, p)
    ELSE [c EXCEPT !.h.foundAbsent = @ \/ p # NoPath, !.threw = FALSE]

\* How a synchronous stretch ends.
Respond(c, response) ==
    [fs |-> c.fs,
     h |-> [c.h EXCEPT !.responses = @ + 1, !.trace = Append(@, "Responded")],
     resp |-> response, next |-> "done"]

AwaitSend(c) ==
    [fs |-> c.fs,
     h |-> [c.h EXCEPT !.sends = @ + 1, !.trace = Append(@, "Dispatched")],
     resp |-> NoResp, next |-> "awaitSend"]

\* An exception leaves the async handler: its promise rejects.
Rejects(c) == [fs |-> c.fs, h |-> c.h, resp |-> NoResp, next |-> "rejected"]

\* String.prototype.includes, on sequences of words.
includes(message, word) == \E i \in 1..Len(message) : message[i] = word

\* ----------------------------------------------------- server.js handlers
\* catch (error) of /send-career-email
serverCatch(c, r, uploadedFilePath, error) ==
    LET c1 == GuardedUnlink(c, r, uploadedFilePath) IN
    IF c1.threw
    THEN Rejects(c1)
    ELSE IF error.multer
    THEN IF error.code = "LIMIT_FILE_SIZE"
         THEN Respond(c1, Json(400, FALSE, MsgFileTooLarge))
         ELSE Respond(c1, Json(400, FALSE, <<"File upload error:">> \o error.message))
    ELSE IF ~error.hasMessage
    THEN Rejects(c1)
    ELSE IF includes(error.message, "Invalid file type")
    THEN Respond(c1, Json(400, FALSE, error.message))
    ELSE Respond(c1, Json(500, FALSE, MsgCareerFailed.server))

\* try { ... } up to the await of resend.emails.send
serverCareerStart(c, r, b, resumeFile, p) ==
    IF ~(CareerRequired \subseteq b)
    THEN LET c0 == [c EXCEPT !.h.rejected = TRUE] IN
         IF resumeFile.has
         THEN LET c1 == TryUnlink(c0, r, p) IN
              IF c1.threw
              THEN serverCatch(c1, r, NoPath, ErrENOENT(p))
              ELSE Respond(c1, Json(400, FALSE, MsgCareerRequired.server))
         ELSE Respond(c0, Json(400, FALSE, MsgCareerRequired.server))
    ELSE IF ~resumeFile.has
    THEN Respond([c EXCEPT !.h.rejected = TRUE], Json(400, FALSE, MsgResumeRequired))
    ELSE IF ~existsSync(c.fs, p)
    THEN serverCatch(ReadFailed(Stage(c, "Validated")), r, p, ErrENOENT(p))
    ELSE AwaitSend(Stage(Stage(Stage(c, "Validated"), "FileRead"), "Composed"))

\* from the resolution of resend.emails.send to the response
serverCareerSent(c, r, uploadedFilePath) ==
    LET c1 == GuardedUnlink(c, r, uploadedFilePath) IN
    IF c1.threw
    THEN serverCatch(c1, r, uploadedFilePath, ErrENOENT(uploadedFilePath))
    ELSE Respond(c1, Json(200, TRUE, MsgCareerSent.server))

serverEmailHTML(b) ==
    <<[label |-> "Full Name", value |-> "name"],
      [label |-> "Email", value |-> "email"],
      [label |-> "Phone Number", value |-> "phone"],
      [label |-> "Applying For", value |-> "jobRole"],
      [label |-> "Years of Experience",
       value |-> IF "experience" \in b THEN "experience" ELSE "Not specified"]>>
    \o (IF "message" \in b
        THEN <<[label |-> "Message / Cover Letter", value |-> "message"]>>
        ELSE <<>>)

\* ------------------------------------------------------ part_000 handlers
\* catch (error) of /send-career-email
partCatch(c, r, filePath, error) ==
    LET c1 == GuardedUnlink(c, r, filePath) IN
    IF c1.threw
    THEN Rejects(c1)
    ELSE Respond(c1, Json(500, FALSE, MsgCareerFailed.part))

partCareerStart(c, r, b, resume, p) ==
    IF ~(CareerRequired \subseteq b) \/ ~resume.has
    THEN LET c0 == [c EXCEPT !.h.rejected = TRUE] IN
         IF resume.has
         THEN LET c1 == TryUnlink(c0, r, p) IN
              IF c1.threw
              THEN partCatch(c1, r, NoPath, ErrENOENT(p))
              ELSE Respond(c1, Json(400, FALSE, MsgCareerRequired.part))
         ELSE Respond(c0, Json(400, FALSE, MsgCareerRequired.part))
    ELSE IF ~existsSync(c.fs, p)
    THEN partCatch(ReadFailed(Stage(c, "Validated")), r, p, ErrENOENT(p))
    ELSE AwaitSend(Stage(Stage(Stage(c, "Validated"), "FileRead"), "Composed"))

\* partCareerSent answering before it deletes the file.
partCareerSent_respondFirst(c, r, filePath) ==
    LET o == Respond(c, Json(200, TRUE, MsgCareerSent.part))
        c1 == TryUnlink(Ctx(o.fs, o.h), r, filePath)
    IN [o EXCEPT !.fs = c1.fs, !.h = c1.h]

partCareerSent(c, r, filePath) ==
    LET c1 == TryUnlink(c, r, filePath) IN
    IF c1.threw
    THEN partCatch(c1, r, filePath, ErrENOENT(filePath))
    ELSE Respond(c1, Json(200, TRUE, MsgCareerSent.part))

partEmailHTML(b) ==
    <<[label |-> "Name", value |-> "name"],
      [label |-> "Email", value |-> "email"],
      [label |-> "Phone", value |-> "phone"],
      [label |-> "Role", value |-> "jobRole"],
      [label |-> "Experience",
       value |-> IF "experience" \in b THEN "experience" ELSE "Not provided"],
      [label |-> "Message",
       value |-> IF "message" \in b THEN "message" ELSE "N/A"]>>

\* ------------------------------------------------------ both programs
CareerStart(i, c, r, b, file, p) ==
    IF i = "server" THEN serverCareerStart(c, r, b, file, p)
    ELSE partCareerStart(c, r, b, file, p)

CareerSent(i, c, r, p) ==
    IF i = "server" THEN serverCareerSent(c, r, p) ELSE partCareerSent(c, r, p)

CareerCatch(i, c, r, p, error) ==
    IF i = "server" THEN serverCatch(c, r, p, error) ELSE partCatch(c, r, p, error)

CareerMessage(i, fs, r, b, file, p) ==
    [req |-> r,
     to |-> HrRecipient,
     html |-> IF i = "server" THEN serverEmailHTML(b) ELSE partEmailHTML(b),
     attachments |-> <<[filename |-> file.originalname,
                        content |-> readFileSync(fs, p)]>>]

\* /send-email, the same in both programs but for the texts
ContactStart(i, c, b) ==
    IF ~(ContactFields \subseteq b)
    THEN Respond([c EXCEPT !.h.rejected = TRUE], Json(400, FALSE, MsgContactRequired[i]))
    ELSE AwaitSend(Stage(Stage(c, "Validated"), "Composed"))

ContactSent(i, c) == Respond(c, Json(200, TRUE, MsgContactSent[i]))

\* ContactCatch clearing uploads/ as a cleanup of its own.
ContactCatch_cleanup(i, c, error) ==
    Respond([c EXCEPT !.fs = [q \in {} |-> 0]], Json(500, FALSE, MsgContactFailed[i]))

ContactCatch(i, c, error) == Respond(c, Json(500, FALSE, MsgContactFailed[i]))

ContactMessage(r, b) ==
    [req |-> r,
     to |-> ContactRecipient,
     html |-> <<[label |-> "Name", value |-> "name"],
                [label |-> "Email", value |-> "email"],
                [label |-> "Message", value |-> "message"]>>,
     attachments |-> <<>>]

\* Express's default error handler: no error middleware is registered, so
\* an error passed to next() is answered with 500 and no JSON envelope,
\* whatever the error (neither Error nor MulterError carries a status).
DefaultError(error) ==
    [status |-> 500, envelope |-> FALSE, success |-> FALSE, message |-> MsgInternal]

\* ---------------------------------------------------------------- actions
Init ==
    /\ impl \in Impls
    /\ now = 1
    /\ files = [q \in {} |-> 0]
    /\ pc = [r \in Requests |-> "idle"]
    /\ kind = [r \in Requests |-> "contact"]
    /\ body = [r \in Requests |-> {}]
    /\ upload = [r \in Requests |-> NoUpload]
    /\ path = [r \in Requests |-> NoPath]
    /\ resp = [r \in Requests |-> NoResp]
    /\ outbox = <<>>
    /\ h = [r \in Requests |-> NoHist]

\* A client posts a form.  Requests are numbered in their order of arrival.
Arrive(r) ==
    /\ pc[r] = "idle"
    /\ \A q \in Requests : q < r => pc[q] # "idle"
    /\ \/ /\ kind' = [kind EXCEPT ![r] = "contact"]
          /\ \E b \in ContactBodies : body' = [body EXCEPT ![r] = b]
          /\ upload' = upload
          /\ pc' = [pc EXCEPT ![r] = "handler"]
       \/ /\ kind' = [kind EXCEPT ![r] = "career"]
          /\ \E b \in CareerBodies : body' = [body EXCEPT ![r] = b]
          /\ \E u \in Uploads : upload' = [upload EXCEPT ![r] = u]
          /\ pc' = [pc EXCEPT ![r] = "multer"]
    /\ h' = [h EXCEPT ![r].trace = <<"Received">>]
    /\ UNCHANGED <<impl, now, files, path, resp, outbox>>

\* upload.single('resume') runs before the handler, outside its try.
\* No file part: the handler runs with req.file undefined.  A file part
\* whose type fileFilter refuses: next(err), nothing is written.  Otherwise
\* the part is streamed to disk under a generated name.
MulterUpload(r) ==
    /\ pc[r] = "multer"
    /\ \/ /\ ~upload[r].has
          /\ pc' = [pc EXCEPT ![r] = "handler"]
          /\ UNCHANGED <<files, path, resp, h>>
       \/ /\ upload[r].has
          /\ ~fileFilter(upload[r])
          /\ pc' = [pc EXCEPT ![r] = "done"]
          /\ resp' = [resp EXCEPT ![r] = DefaultError(ErrInvalidType(impl))]
          /\ h' = [h EXCEPT ![r].responses = @ + 1,
                            ![r].trace = Append(@, "Responded")]
          /\ UNCHANGED <<files, path>>
       \/ /\ upload[r].has
          /\ fileFilter(upload[r])
          /\ \E rnd \in 0..MaxRand :
               LET p == IF impl = "server"
                        THEN filename(now, rnd, upload[r].originalname)
                        ELSE defaultFilename(r)
               IN /\ files' = writeFile(files, p, r)
                  /\ path' = [path EXCEPT ![r] = p]
          /\ h' = [h EXCEPT ![r].stored = TRUE]
          /\ pc' = [pc EXCEPT ![r] = IF withinLimit(upload[r]) THEN "handler"
                                     ELSE "aborting"]
          /\ resp' = resp
    /\ UNCHANGED <<impl, now, kind, body, upload, outbox>>

\* The part exceeded limits.fileSize: multer removes what it wrote (an
\* error of that unlink is only collected) and calls next(MulterError).
MulterAbort(r) ==
    /\ pc[r] = "aborting"
    /\ files' = unlinkSync(files, path[r])
    /\ h' = [h EXCEPT ![r].unlinkCalls = @ + 1,
                      ![r].foundAbsent = @ \/ ~existsSync(files, path[r]),
                      ![r].removedOther = @ \/ (existsSync(files, path[r])
                                                /\ files[path[r]] # r),
                      ![r].responses = @ + 1,
                      ![r].trace = @ \o <<"CleanedUp", "Responded">>]
    /\ pc' = [pc EXCEPT ![r] = "done"]
    /\ resp' = [resp EXCEPT ![r] = DefaultError(ErrLimitFileSize)]
    /\ UNCHANGED <<impl, now, kind, body, upload, path, outbox>>

\* The end of a synchronous stretch o of request r.  A rejected handler
\* promise is not handled by Express 4 (no response is ever sent) and is
\* passed to next() by Express 5 (the default error handler answers).
Finish(r, o) ==
    /\ files' = o.fs
    /\ \/ /\ o.next # "rejected"
          /\ pc' = [pc EXCEPT ![r] = o.next]
          /\ resp' = [resp EXCEPT ![r] = o.resp]
          /\ h' = [h EXCEPT ![r] = o.h]
       \/ /\ o.next = "rejected"
          /\ pc' = [pc EXCEPT ![r] = "hung"]
          /\ resp' = resp
          /\ h' = [h EXCEPT ![r] = o.h]
       \/ /\ o.next = "rejected"
          /\ pc' = [pc EXCEPT ![r] = "done"]
          /\ resp' = [resp EXCEPT ![r] = DefaultError(ErrTypeError)]
          /\ h' = [h EXCEPT ![r] = [o.h EXCEPT !.responses = @ + 1,
                                                !.trace = Append(@, "Responded")]]

\* The handler, from its start to the response or to the await of send.
HandlerStart(r) ==
    /\ pc[r] = "handler"
    /\ LET c == Ctx(files, h[r])
           o == IF kind[r] = "career"
                THEN CareerStart(impl, c, r, body[r], upload[r], path[r])
                ELSE ContactStart(impl, c, body[r])
       IN /\ Finish(r, o)
          /\ outbox' = IF o.next = "awaitSend"
                       THEN Append(outbox,
                                   IF kind[r] = "career"
                                   THEN CareerMessage(impl, files, r, body[r],
                                                      upload[r], path[r])
                                   ELSE ContactMessage(r, body[r]))
                       ELSE outbox
    /\ UNCHANGED <<impl, now, kind, body, upload, path>>

\* The provider accepts the message: the handler resumes after the await.
ProviderAccepts(r) ==
    /\ pc[r] = "awaitSend"
    /\ LET c == Ctx(files, [h[r] EXCEPT !.accepted = TRUE])
           o == IF kind[r] = "career"
                THEN CareerSent(impl, c, r, path[r])
                ELSE ContactSent(impl, c)
       IN Finish(r, o)
    /\ UNCHANGED <<impl, now, kind, body, upload, path, outbox>>

\* The provider's send throws: the handler resumes in its catch.
ProviderFails(r) ==
    /\ pc[r] = "awaitSend"
    /\ \E error \in ProviderErrors :
         LET c == Ctx(files, [h[r] EXCEPT !.sendFailed = TRUE,
                                          !.sendError = error.message])
             o == IF kind[r] = "career"
                  THEN CareerCatch(impl, c, r, path[r], error)
                  ELSE ContactCatch(impl, c, error)
         IN Finish(r, o)
    /\ UNCHANGED <<impl, now, kind, body, upload, path, outbox>>

\* Something outside the program removes a file of uploads/.
ExternalRemove ==
    /\ \E p \in DOMAIN files : files' = unlinkSync(files, p)
    /\ UNCHANGED <<impl, now, pc, kind, body, upload, path, resp, outbox, h>>

Tick ==
    /\ impl = "server"
    /\ now < MaxClock
    /\ now' = now + 1
    /\ UNCHANGED <<impl, files, pc, kind, body, upload, path, resp, outbox, h>>

Next ==
    \/ \E r \in Requests : Arrive(r)
    \/ \E r \in Requests : MulterUpload(r)
    \/ \E r \in Requests : MulterAbort(r)
    \/ \E r \in Requests : HandlerStart(r)
    \/ \E r \in Requests : ProviderAccepts(r)
    \/ \E r \in Requests : ProviderFails(r)
    \/ ExternalRemove
    \/ Tick

Spec == Init /\ [][Next]_vars
\* ------------------------------------------------------------ properties
Answered(r) == pc[r] = "done"

Ended(r) == pc[r] \in {"done", "hung"}

Live(r) == pc[r] \in {"aborting", "handler", "awaitSend"}

Career(r) == pc[r] # "idle" /\ kind[r] = "career"

Contact(r) == pc[r] # "idle" /\ kind[r] = "contact"

HoldsFileOf(r) == \E p \in DOMAIN files : files[p] = r

MissingRequired(r) ==
    \/ Contact(r) /\ ~(ContactFields \subseteq body[r])
    \/ Career(r) /\ (~(CareerRequired \subseteq body[r]) \/ ~upload[r].has)

\* C1: once a request to /send-career-email has been answered, with any
\* status and on any path, uploads/ holds no file written for that request.
C1_NoFileAfterResponse ==
    \A r \in Requests : Answered(r) /\ Career(r) => ~HoldsFileOf(r)

\* C1 witness: two career requests whose uploads were written to disk have
\* been answered, one with 200 and one with 500 after a failed dispatch.
C1_Witness ==
    \E r, q \in Requests :
        /\ path[r] # path[q]
        /\ Answered(r) /\ h[r].stored /\ resp[r].status = 200
        /\ Answered(q) /\ h[q].stored /\ h[q].sendFailed
        /\ resp[q] = Json(500, FALSE, MsgCareerFailed[impl])

\* C2: a request that misses a required field (for a career request also
\* the resume) is answered 400 and the provider's send is never called.
C2_MissingFieldIs400 ==
    \A r \in Requests :
        Answered(r) /\ MissingRequired(r) =>
            resp[r].status = 400 /\ h[r].sends = 0

C4_TooLargeIs400 ==
    \A r \in Requests :
        /\ Answered(r) /\ Career(r)
        /\ CareerRequired \subseteq body[r]
        /\ upload[r].has /\ fileFilter(upload[r]) /\ upload[r].size > fileSize
        => /\ resp[r] = Json(400, FALSE, MsgFileTooLarge)
           /\ h[r].sends = 0
           /\ ~HoldsFileOf(r)

\* C5: a career request whose resume has a type outside the allow-list is
\* answered 400, is never dispatched and leaves no file; and every upload
\* that is dispatched has an allowed type and at most 5 MiB.
C5_InvalidTypeIs400 ==
    /\ \A r \in Requests :
        Answered(r) /\ Career(r) /\ upload[r].has /\ ~fileFilter(upload[r])
        => resp[r].status = 400 /\ h[r].sends = 0 /\ ~HoldsFileOf(r)
    /\ \A i \in 1..Len(outbox) :
        Len(outbox[i].attachments) > 0 =>
            /\ upload[outbox[i].req].mimetype \in allowedTypes
            /\ upload[outbox[i].req].size <= fileSize

\* C6: when the provider's send failed, the response is 500 with a fixed
\* generic message and carries no part of the provider's error message.
C6_ProviderFailureIsGeneric500 ==
    \A r \in Requests :
        Answered(r) /\ h[r].sendFailed =>
            /\ resp[r].status = 500
            /\ resp[r].message \in
                 {MsgCareerFailed[impl], MsgContactFailed[impl], MsgInternal}
            /\ \A i \in 1..Len(h[r].sendError) :
                 ~includes(resp[r].message, h[r].sendError[i])

\* C7: a request is answered with success (200, success: true) if and
\* only if the provider accepted its message.
C7_SuccessIffAccepted ==
    \A r \in Requests :
        Answered(r) =>
            ((resp[r].status = 200 /\ resp[r].success) <=> h[r].accepted)

\* C8: no release raises an error, also on a file that is already absent,
\* and no release removes a file that holds another request's upload.
C8_ReleaseIdempotent ==
    \A r \in Requests : ~h[r].unlinkThrew /\ ~h[r].removedOther

\* C9: concurrent career requests have pairwise distinct storage paths, no
\* request deletes another request's file, and every attachment sent holds
\* the bytes of its own request's upload.
C9_DistinctPaths ==
    /\ \A r, q \in Requests :
        r # q /\ Live(r) /\ Live(q) /\ path[r] # NoPath /\ path[q] # NoPath
        => path[r] # path[q]
    /\ \A r \in Requests : ~h[r].removedOther
    /\ \A i \in 1..Len(outbox) :
        \A j \in 1..Len(outbox[i].attachments) :
            outbox[i].attachments[j].content = outbox[i].req

\* C10: a failed deletion never changes the response: an accepted request
\* is still answered 200 and one rejected by validation is still answered 400.
C10_CleanupFailureIsNoOp ==
    \A r \in Requests :
        Ended(r) /\ h[r].unlinkThrew =>
            /\ h[r].accepted => Answered(r) /\ resp[r].status = 200
            /\ h[r].rejected => Answered(r) /\ resp[r].status = 400

\* The stages of the pipeline, in their order.
Rank(stage) ==
    CASE stage = "Received" -> 1
      [] stage = "Validated" -> 2
      [] stage = "FileRead" -> 3
      [] stage = "Composed" -> 4
      [] stage = "Dispatched" -> 5
      [] stage = "CleanedUp" -> 6
      [] stage = "Responded" -> 7

\* C11: the stages a request passes are in the order Received, Validated,
\* FileRead, Composed, Dispatched, CleanedUp, Responded (stages may be
\* skipped, none is repeated or passed out of order); a career request is
\* dispatched only after validation and the read of its file; and a career
\* request answered 200 has been dispatched and has released its file (by
\* deleting it or by finding it already absent) before the response.
C11_StageOrder ==
    \A r \in Requests :
        LET t == h[r].trace IN
        /\ \A i, j \in 1..Len(t) : i < j => Rank(t[i]) < Rank(t[j])
        /\ Career(r) /\ includes(t, "Dispatched") =>
               includes(t, "Validated") /\ includes(t, "FileRead")
        /\ Career(r) /\ Answered(r) /\ resp[r].status = 200 =>
               /\ includes(t, "Dispatched")
               /\ includes(t, "CleanedUp") \/ h[r].foundAbsent

\* C11 witness: a career request has passed all seven stages and got 200.
C11_Witness ==
    \E r \in Requests :
        /\ Career(r) /\ Answered(r) /\ resp[r].status = 200
        /\ h[r].trace = <<"Received", "Validated", "FileRead", "Composed",
                          "Dispatched", "CleanedUp", "Responded">>

MessagesOf(r) == {i \in 1..Len(outbox) : outbox[i].req = r}

\* C12: a request whose message the provider accepted is answered 200 and
\* has exactly one outbound message, to the fixed recipient of its kind; a
\* career message carries exactly one attachment, named as the upload was
\* and holding the bytes of that request's own resume.
C12_AcceptedIsDelivered ==
    \A r \in Requests :
        Ended(r) /\ h[r].accepted =>
            /\ Answered(r) /\ resp[r].status = 200
            /\ Cardinality(MessagesOf(r)) = 1
            /\ \A i \in MessagesOf(r) :
                 IF kind[r] = "career"
                 THEN /\ outbox[i].to = HrRecipient
                      /\ outbox[i].attachments =
                           <<[filename |-> upload[r].originalname, content |-> r]>>
                 ELSE outbox[i].to = ContactRecipient

\* C13: send is invoked at most once per request, and a request whose
\* send failed is answered 500.
C13_NoRetry ==
    \A r \in Requests :
        /\ h[r].sends <= 1
        /\ Cardinality(MessagesOf(r)) <= 1
        /\ Answered(r) /\ h[r].sendFailed => resp[r].status = 500

\* C14: a career request whose read of the stored file failed is answered
\* 500 with the generic message, never invokes the provider, and has
\* reached its cleanup.
C14_ReadFailureIs500 ==
    \A r \in Requests :
        Ended(r) /\ h[r].readFailed =>
            /\ Answered(r)
            /\ resp[r] = Json(500, FALSE, MsgCareerFailed[impl])
            /\ h[r].sends = 0
            /\ h[r].foundAbsent

\* C15: the email of a career submission always has a section for the
\* experience and one for the message; an absent experience is rendered
\* "Not specified" and an absent message "N/A".
C15_PlaceholdersPresent ==
    \A i \in 1..Len(outbox) :
        outbox[i].to = HrRecipient =>
            LET b == body[outbox[i].req]
                html == outbox[i].html
            IN /\ \E k \in 1..Len(html) :
                    /\ html[k].label \in {"Years of Experience", "Experience"}
                    /\ html[k].value =
                         IF "experience" \in b THEN "experience" ELSE "Not specified"
               /\ \E k \in 1..Len(html) :
                    /\ html[k].label \in {"Message / Cover Letter", "Message"}
                    /\ html[k].value =
                         IF "message" \in b THEN "message" ELSE "N/A"

\* C16: no request is left without a response, and none gets more than one.
C16_OneResponse ==
    \A r \in Requests :
        /\ pc[r] # "hung"
        /\ h[r].responses <= 1
        /\ Answered(r) => h[r].responses = 1

\* C17: no step of a contact request changes the set of files of uploads/
\* or their contents, also while career requests are in flight.
C17_ContactLeavesFiles ==
    [][\A r \in Requests :
          pc'[r] # pc[r] /\ kind'[r] = "contact" => files' = files]_vars

\* C17 witness: a contact request has been dispatched and answered while
\* the upload of a career request in flight is on disk.
C17_Witness ==
    \E r, q \in Requests :
        /\ Contact(r) /\ Answered(r) /\ h[r].sends = 1
        /\ Career(q) /\ Live(q) /\ HoldsFileOf(q)

====
